---------------------------- MODULE Spec2Model ----------------------------
(***************************************************************************)
(* Model of src/application.py (hkilang/TTS-API): the request handler app, *)
(* the synthesis driver generate_audio and the process-wide models cache.  *)
(*                                                                         *)
(* A Python str is a sequence of characters; a character is a one-element  *)
(* TLA+ string, or "<XX>" / "<U+XXXX>" for a character outside ASCII       *)
(* (named by its byte or code point).  None is the value None.             *)
(***************************************************************************)
EXTENDS Integers, Sequences, FiniteSets, TLC

VARIABLES
    models,      \* the module-level dict models: name -> model handle
    loadCount,   \* per name, how many times load_model returned a handle
    pc,          \* per worker thread, its position in app / generate_audio
    language,    \* per thread, the locals of app and generate_audio ...
    voice,
    text,
    speed,
    idx,         \* how many syllables of text.split() the loop has consumed
    phones,
    tones,
    word2ph,
    resp,        \* what app returned (or raised) for the thread's request
    arrival      \* history: the request and the models dict as it was when
                 \* the request came in (recorded for requests served one
                 \* after another)

vars == <<models, loadCount, pc, language, voice, text, speed, idx,
          phones, tones, word2ph, resp, arrival>>

(***************************************************************************)
(* Bounds of the model.                                                    *)
(***************************************************************************)
NumThreads == 2
MaxSyllables == 2

Threads == 1..NumThreads

\* An argument of app is None or a str
None == [some |-> FALSE]
Str(s) == [some |-> TRUE, s |-> s]

(***************************************************************************)
(* Python string operations used by app.                                   *)
(***************************************************************************)
Positions(s, chars) == {i \in 1..Len(s) : s[i] \in chars}

Min(S) == CHOOSE x \in S : \A y \in S : x <= y
Max(S) == CHOOSE x \in S : \A y \in S : x >= y

\* s.strip(c)
Strip(s, c) ==
    LET keep == {i \in 1..Len(s) : s[i] # c}
    IN  IF keep = {} THEN <<>> ELSE SubSeq(s, Min(keep), Max(keep))

\* s.split(sep), sep a single character
RECURSIVE Split(_, _)
Split(s, sep) ==
    LET at == Positions(s, {sep})
    IN  IF at = {} THEN <<s>>
        ELSE <<SubSeq(s, 1, Min(at) - 1)>> \o Split(SubSeq(s, Min(at) + 1, Len(s)), sep)

\* s.split(sep, 1)
Split1(s, sep) ==
    LET at == Positions(s, {sep})
    IN  IF at = {} THEN <<s>>
        ELSE <<SubSeq(s, 1, Min(at) - 1), SubSeq(s, Min(at) + 1, Len(s))>>

\* s.replace(a, b), a and b single characters
Replace(s, a, b) == [i \in 1..Len(s) |-> IF s[i] = a THEN b ELSE s[i]]

NonEmpty(s) == s # <<>>

\* s.split(): the maximal runs of non-whitespace characters (the space is the
\* alphabet's only whitespace)
SplitWs(s) == SelectSeq(Split(s, " "), NonEmpty)

\* s.lower(), on the letters of the model's alphabet
LowerChar(c) ==
    CASE c = "T" -> "t"
      [] c = "S" -> "s"
      [] c = "H" -> "h"
      [] c = "A" -> "a"
      [] c = "K" -> "k"
      [] c = "F" -> "f"
      [] c = "E" -> "e"
      [] c = "M" -> "m"
      [] c = "L" -> "l"
      [] c = "N" -> "n"
      [] c = "V" -> "v"
      [] c = "O" -> "o"
      [] c = "I" -> "i"
      [] c = "C" -> "c"
      [] c = "P" -> "p"
      [] OTHER -> c

Lower(s) == [i \in 1..Len(s) |-> LowerChar(s[i])]

(***************************************************************************)
(* s.encode("latin_1").decode(): the str is turned into the bytes it       *)
(* stands for and those are read as UTF-8.  Characters above U+00FF have   *)
(* no Latin-1 byte; "<C3>" and "<D9>" are UTF-8 lead bytes that need one   *)
(* continuation byte ("<A3>", "<A4>"); "<FF>" is never valid UTF-8; every  *)
(* other character of the alphabet is ASCII.                               *)
(***************************************************************************)
NotLatin1 == {"<U+0130>", "<U+0663>", "<U+0664>"}
Utf8Lead == {"<C3>", "<D9>"}
Utf8Cont == {"<A3>", "<A4>"}
Utf8Never == {"<FF>"}

\* C3 A3 is U+00E3, C3 A4 is U+00E4 (a-umlaut), D9 A3 and D9 A4 are the
\* Arabic-Indic digits three and four
Utf8Pair(lead, cont) ==
    CASE lead = "<C3>" /\ cont = "<A3>" -> "<U+00E3>"
      [] lead = "<C3>" /\ cont = "<A4>" -> "<U+00E4>"
      [] lead = "<D9>" /\ cont = "<A3>" -> "<U+0663>"
      [] lead = "<D9>" /\ cont = "<A4>" -> "<U+0664>"

\* the result of decoding bytes b as UTF-8, or the position of the first error
RECURSIVE Utf8Decode(_, _, _)
Utf8Decode(b, i, acc) ==
    IF i > Len(b) THEN [ok |-> TRUE, str |-> acc]
    ELSE IF b[i] \in Utf8Never \cup Utf8Cont THEN [ok |-> FALSE, start |-> i, end |-> i]
    ELSE IF b[i] \in Utf8Lead THEN
        IF i < Len(b) /\ b[i + 1] \in Utf8Cont
        THEN Utf8Decode(b, i + 2, Append(acc, Utf8Pair(b[i], b[i + 1])))
        ELSE [ok |-> FALSE, start |-> i, end |-> i]
    ELSE Utf8Decode(b, i + 1, Append(acc, b[i]))

\* the end of the run of unencodable characters that starts at i
RECURSIVE RunEnd(_, _)
RunEnd(s, i) == IF i < Len(s) /\ s[i + 1] \in NotLatin1 THEN RunEnd(s, i + 1) ELSE i

\* [ok |-> TRUE, str] or the UnicodeError with content[start:end]
Recode(s) ==
    LET bad == Positions(s, NotLatin1)
    IN  IF bad # {}
        THEN [ok |-> FALSE, content |-> SubSeq(s, Min(bad), RunEnd(s, Min(bad)))]
        ELSE LET d == Utf8Decode(s, 1, <<>>)
             IN  IF d.ok THEN d ELSE [ok |-> FALSE, content |-> SubSeq(s, d.start, d.end)]


(***************************************************************************)
(* urllib.parse.parse_qs(qs, keep_blank_values=True, strict_parsing=True): *)
(* the fields are split at "&", each at its first "=", and a field without *)
(* "=" is a ValueError; "+" stands for a space.  The alphabet holds no "%" *)
(* (no percent escapes).  An empty query string has no fields.             *)
(***************************************************************************)
HasEq(field) == Len(field) = 2

ToPair(nv) == <<Replace(nv[1], "+", " "), Replace(nv[2], "+", " ")>>

ParseQs(qs) ==
    LET query_args == IF qs = <<>> THEN <<>> ELSE Split(qs, "&")
        nvs == [i \in 1..Len(query_args) |-> Split1(query_args[i], "=")]
    IN  IF \E i \in 1..Len(nvs) : ~HasEq(nvs[i])
        THEN [ok |-> FALSE]
        ELSE [ok |-> TRUE, pairs |-> [i \in 1..Len(nvs) |-> ToPair(nvs[i])]]

\* options.get(key, default): the values given for key, in order
RECURSIVE ValuesOf(_, _)
ValuesOf(pairs, key) ==
    IF pairs = <<>> THEN <<>>
    ELSE (IF Head(pairs)[1] = key THEN <<Head(pairs)[2]>> ELSE <<>>)
         \o ValuesOf(Tail(pairs), key)

Get(options, key, default) ==
    IF ValuesOf(options.pairs, key) = <<>> THEN default ELSE ValuesOf(options.pairs, key)

(***************************************************************************)
(* float(s), on decimal literals without exponent or underscore: optional  *)
(* surrounding whitespace, an optional "-", then digits with at most one   *)
(* ".", or nan, or inf.  A number is kept exactly, as num / 10^scale.      *)
(***************************************************************************)
Digits == <<"0", "1", "2", "3", "4", "5", "6", "7", "8", "9">>
DigitChars == {Digits[i] : i \in 1..10}
DigitVal(c) == (CHOOSE i \in 1..10 : Digits[i] = c) - 1

RECURSIVE Pow10(_)
Pow10(k) == IF k = 0 THEN 1 ELSE 10 * Pow10(k - 1)

RECURSIVE ToNat(_)
ToNat(ds) == IF ds = <<>> THEN 0 ELSE 10 * ToNat(SubSeq(ds, 1, Len(ds) - 1)) + DigitVal(ds[Len(ds)])

IsDigit(c) == c \in DigitChars

Float(s) ==
    LET t == Strip(s, " ")
        neg == t # <<>> /\ t[1] = "-"
        u == IF neg THEN Tail(t) ELSE t
        dots == Positions(u, {"."})
        ds == SelectSeq(u, IsDigit)
    IN  IF u = <<"n", "a", "n">> THEN [ok |-> TRUE, kind |-> "nan"]
        ELSE IF u = <<"i", "n", "f">> THEN [ok |-> TRUE, kind |-> "inf", neg |-> neg]
        ELSE IF /\ ds # <<>>
                /\ Cardinality(dots) <= 1
                /\ Len(ds) + Cardinality(dots) = Len(u)
        THEN [ok |-> TRUE, kind |-> "num", neg |-> neg, num |-> ToNat(ds),
              scale |-> IF dots = {} THEN 0 ELSE Len(u) - Min(dots)]
        ELSE [ok |-> FALSE]

\* x < 0.5 and x > 2 on floats: every comparison with nan is false
LessThanHalf(x) ==
    CASE x.kind = "nan" -> FALSE
      [] x.kind = "inf" -> x.neg
      [] x.kind = "num" -> IF x.neg THEN TRUE ELSE 2 * x.num < Pow10(x.scale)

GreaterThanTwo(x) ==
    CASE x.kind = "nan" -> FALSE
      [] x.kind = "inf" -> ~x.neg
      [] x.kind = "num" -> IF x.neg THEN FALSE ELSE x.num > 2 * Pow10(x.scale)


(***************************************************************************)
(* The strings of the program.                                             *)
(***************************************************************************)
tts == <<"t", "t", "s">>
waitau == <<"w", "a", "i", "t", "a", "u">>
hakka == <<"h", "a", "k", "k", "a">>
male == <<"m", "a", "l", "e">>
female == <<"f", "e", "m", "a", "l", "e">>
voiceKey == <<"v", "o", "i", "c", "e">>
speedKey == <<"s", "p", "e", "e", "d">>

(***************************************************************************)
(* What app gives back: a (status, body) pair, or an exception that leaves *)
(* it.  A message is its format string and the value put into it.          *)
(***************************************************************************)
NoResp == [kind |-> "none"]
Returned(status, body) == [kind |-> "return", status |-> status, body |-> body]
Raised(exc) == [kind |-> "raise", exc |-> exc]
Call(l, v, t, sp) == [kind |-> "call", language |-> l, voice |-> v, text |-> t, speed |-> sp]

Msg(fmt, arg) == [fmt |-> fmt, arg |-> arg]

DecodeError(content) ==
    Returned(500, [error |-> "Error while decoding URI: invalid characters",
                   message |-> content])
InvalidOption(msg) == Returned(500, [error |-> "Invalid option", message |-> msg])
PageNotFound == Returned(404, [error |-> "Page not found"])

\* a route test that forgets the language
RouteAnyLanguage(function, lang) == function = tts

\* line 37: the route test
RouteOk(function, lang) == function = tts /\ lang \in {waitau, hakka}

\* line 43
VoiceOk(v) == v \in {male, female}

\* line 49: the range test passes when neither comparison is true
SpeedInRange(x) == ~(LessThanHalf(x) \/ GreaterThanTwo(x))

\* lines 44-51, given the parsed options and the voice
AppSpeed(lang, v, txt, options) ==
    LET sp == Get(options, speedKey, <<<<"1">>>>)
    IN  IF Len(sp) # 1
        THEN InvalidOption(Msg("Expected at most a single 'speed', received {} values", Len(sp)))
        ELSE LET x == Float(sp[1])
                 fmt == "The 'speed' query must be a decimal number between 0.5 and 2 (defaults to 1), received '{}'"
             IN  IF ~x.ok THEN InvalidOption(Msg(fmt, sp[1]))
                 ELSE IF ~SpeedInRange(x) THEN InvalidOption(Msg(fmt, x))
                 ELSE Call(lang, v, Replace(txt, "+", " "), x)

\* lines 38-43, on a valid route
AppOptions(lang, txt, query) ==
    IF ~query.some THEN Raised("AttributeError")
    ELSE LET q == Recode(query.s)
         IN  IF ~q.ok THEN DecodeError(q.content)
             ELSE LET options == ParseQs(Lower(q.str))
                  IN  IF ~options.ok THEN PageNotFound
                      ELSE LET v == Get(options, voiceKey, <<male>>)
                           IN  IF Len(v) # 1
                               THEN InvalidOption(Msg("Expected at most a single 'voice', received {} values", Len(v)))
                               ELSE IF ~VoiceOk(v[1])
                               THEN InvalidOption(Msg("The 'voice' query must be either 'male' or 'female' (defaults to 'male'), received '{}'", v[1]))
                               ELSE AppSpeed(lang, v[1], txt, options)

\* lines 35-60: the first try block of app.  Either the response it returns,
\* the exception it lets through, or the call of generate_audio it goes on to.
AppParse(path, query) ==
    IF ~path.some THEN Raised("AttributeError")
    ELSE LET p == Recode(path.s)
         IN  IF ~p.ok THEN DecodeError(p.content)
             ELSE LET segs == Split(Strip(Lower(p.str), "/"), "/")
                  IN  IF Len(segs) # 3 THEN PageNotFound
                      ELSE IF ~RouteOk(segs[1], segs[2]) THEN PageNotFound
                      ELSE AppOptions(segs[2], segs[3], query)

(***************************************************************************)
(* generate_audio: the cache key and the encoder's loop body.  Indexes are *)
(* Python's (from 0); Slice(s, a, b) is s[a:b].                            *)
(***************************************************************************)
Name(lang, v) == lang \o <<"_">> \o v

\* a cache test that never finds the name
AlwaysAbsent(name, m) == TRUE

\* line 79
NotInModels(name, m) == name \notin DOMAIN m

Slice(s, a, b) == SubSeq(s, a + 1, b)

Vowels == {"a", "e", "i", "o", "u", "<U+00E4>", "<U+00F6>", "<U+00FC>", "<U+00E6>"}

\* the digit read in base 10
IntBase10(c) ==
    CASE c \in DigitChars -> [ok |-> TRUE, val |-> DigitVal(c)]
      [] c = "<U+0663>" -> [ok |-> TRUE, val |-> 3]
      [] c = "<U+0664>" -> [ok |-> TRUE, val |-> 4]
      [] OTHER -> [ok |-> FALSE]

\* int(c, base=7) of one character: a decimal digit (ASCII or not) below 7,
\* anything else is a ValueError
IntBase7(c) ==
    CASE c \in {"0", "1", "2", "3", "4", "5", "6"} -> [ok |-> TRUE, val |-> DigitVal(c)]
      [] c = "<U+0663>" -> [ok |-> TRUE, val |-> 3]
      [] c = "<U+0664>" -> [ok |-> TRUE, val |-> 4]
      [] OTHER -> [ok |-> FALSE]

\* line 93: the generator of the vowels' indexes, as the sequence it yields
RECURSIVE VowelIndexes(_, _)
VowelIndexes(syllable, i) ==
    IF i >= Len(syllable) THEN <<>>
    ELSE (IF syllable[i + 1] \in Vowels THEN <<i>> ELSE <<>>) \o VowelIndexes(syllable, i + 1)

\* next(it, default) on what is left of the generator
NextOr(it, default) == IF it = <<>> THEN default ELSE Head(it)

\* a medial that always carries the syllable's tone
MedialToneAlways(medial, tone) == tone

\* line 110: the tone of the medial
MedialTone(medial, tone) == IF medial = <<"#">> THEN 0 ELSE tone

\* two phones and a single tone
WaitauOneTone(syllable, index, tone) ==
    [ok |-> TRUE,
     phones |-> <<Slice(syllable, 0, index), Slice(syllable, index, Len(syllable) - 1)>>,
     tones |-> <<tone>>,
     word2ph |-> 2]

\* lines 96-100
WaitauPhones(syllable, index, tone) ==
    [ok |-> TRUE,
     phones |-> <<Slice(syllable, 0, index), Slice(syllable, index, Len(syllable) - 1)>>,
     tones |-> <<tone, tone>>,
     word2ph |-> 2]

\* lines 102-111; it is the generator after index was taken from it
HakkaPhones(syllable, it, index, tone) ==
    LET initial == Slice(syllable, 0, index)
        medial0 == IF initial = <<"y">> THEN <<"i">> ELSE <<"#">>
        final_index == IF syllable[index + 1] = "i" THEN NextOr(it, index) ELSE index
        medial == IF final_index # index THEN <<"i">> ELSE medial0
    IN  [ok |-> TRUE,
         phones |-> <<initial, medial, Slice(syllable, final_index, Len(syllable) - 1)>>,
         tones |-> <<tone, MedialTone(medial, tone), tone>>,
         word2ph |-> 3]

\* lines 84-111: what one syllable adds, or ok = FALSE for ToneError
EncodeSyllable(lang, syllable) ==
    IF Len(syllable) = 1
    THEN [ok |-> TRUE, phones |-> <<syllable>>, tones |-> <<0>>, word2ph |-> 1]
    ELSE LET tone == IntBase7(syllable[Len(syllable)])
             it == VowelIndexes(syllable, 0)
             index == NextOr(it, 0)
         IN  IF ~tone.ok THEN [ok |-> FALSE]
             ELSE IF lang = waitau THEN WaitauPhones(syllable, index, tone.val)
             ELSE HakkaPhones(syllable, IF it = <<>> THEN it ELSE Tail(it), index, tone.val)

ToneError(syllable) ==
    Returned(500, [error |-> "Invalid syllable",
                   message |-> Msg("'{}' does not end with tone 0~6", syllable)])

(***************************************************************************)
(* The symbols module is not part of the sources at hand: the pad symbol   *)
(* and a few symbols of each table stand for it.                           *)
(***************************************************************************)
pad == <<"_">>
waitau_symbols == {pad, <<"g">>, <<"h">>, <<"o">>, <<"a">>, <<"i">>, <<"n", "g">>}
hakka_symbols == {pad, <<"#">>, <<"i">>, <<"g">>, <<"h">>, <<"y">>, <<"o">>, <<"a">>,
                  <<"u">>, <<"p">>, <<"i", "t">>}

SymbolTable(lang) == IF lang = waitau THEN waitau_symbols ELSE hakka_symbols

\* lines 116-120: the first phone that is no key of symbol_to_id, if any
Unknown(lang, ps) == {i \in 1..Len(ps) : ps[i] \notin SymbolTable(lang)}

SymbolError(symbol) ==
    Returned(500, [error |-> "Unrecognized symbol", message |-> Msg("{}", symbol)])
UnexpectedError(exc) ==
    Returned(500, [error |-> "Unexpected error", message |-> Msg("{}: ...", exc)])
Audio == Returned(200, [audio |-> "WAV"])


(***************************************************************************)
(* The state machine.  A worker thread takes a request (Start: the first   *)
(* try block of app), then runs generate_audio in steps between which      *)
(* other threads may run, and hands back the response (Return).            *)
(***************************************************************************)
NoStr == <<>>
NoSpeed == [ok |-> FALSE]
NoArrival == [path |-> None, query |-> None, models |-> <<>>]

Init ==
    /\ models = <<>>
    /\ loadCount = <<>>
    /\ pc = [t \in Threads |-> "idle"]
    /\ language = [t \in Threads |-> NoStr]
    /\ voice = [t \in Threads |-> NoStr]
    /\ text = [t \in Threads |-> NoStr]
    /\ speed = [t \in Threads |-> NoSpeed]
    /\ idx = [t \in Threads |-> 0]
    /\ phones = [t \in Threads |-> <<>>]
    /\ tones = [t \in Threads |-> <<>>]
    /\ word2ph = [t \in Threads |-> <<>>]
    /\ resp = [t \in Threads |-> NoResp]
    /\ arrival = [t \in Threads |-> NoArrival]

\* lines 34-60, and line 63 up to the call of generate_audio
Receive(t, path, query) ==
    /\ pc[t] = "idle"
    /\ LET r == AppParse(path, query)
       IN  IF r.kind = "call"
           THEN /\ language' = [language EXCEPT ![t] = r.language]
                /\ voice' = [voice EXCEPT ![t] = r.voice]
                /\ text' = [text EXCEPT ![t] = r.text]
                /\ speed' = [speed EXCEPT ![t] = r.speed]
                /\ pc' = [pc EXCEPT ![t] = "check"]
                /\ UNCHANGED resp
           ELSE /\ resp' = [resp EXCEPT ![t] = r]
                /\ pc' = [pc EXCEPT ![t] = "done"]
                /\ UNCHANGED <<language, voice, text, speed>>
    /\ UNCHANGED <<models, loadCount, idx, phones, tones, word2ph>>

\* A request comes in while others may be in progress
Start(t, path, query) == Receive(t, path, query) /\ UNCHANGED arrival

\* line 82
EnterLoop(t) ==
    /\ phones' = [phones EXCEPT ![t] = <<pad>>]
    /\ tones' = [tones EXCEPT ![t] = <<0>>]
    /\ word2ph' = [word2ph EXCEPT ![t] = <<1>>]
    /\ idx' = [idx EXCEPT ![t] = 0]

\* lines 78-79: the test of the cache; on a hit the thread goes on to line 82
CheckModel(t) ==
    /\ pc[t] = "check"
    /\ IF NotInModels(Name(language[t], voice[t]), models)
       THEN /\ pc' = [pc EXCEPT ![t] = "load"]
            /\ UNCHANGED <<idx, phones, tones, word2ph>>
       ELSE /\ pc' = [pc EXCEPT ![t] = "loop"]
            /\ EnterLoop(t)
    /\ UNCHANGED <<models, loadCount, language, voice, text, speed, resp, arrival>>

Count(name) == IF name \in DOMAIN loadCount THEN loadCount[name] ELSE 0

Put(m, name, value) ==
    [k \in DOMAIN m \cup {name} |-> IF k = name THEN value ELSE m[k]]

\* line 80 when load_model returns: the handle is stored under the name
LoadModelOk(t) ==
    /\ pc[t] = "load"
    /\ LET name == Name(language[t], voice[t])
       IN  /\ loadCount' = Put(loadCount, name, Count(name) + 1)
           /\ models' = Put(models, name, [file |-> name, serial |-> Count(name) + 1])
    /\ pc' = [pc EXCEPT ![t] = "loop"]
    /\ EnterLoop(t)
    /\ UNCHANGED <<language, voice, text, speed, resp, arrival>>

\* line 80 when load_model raises: lines 69-70 answer
LoadModelFails(t) ==
    /\ pc[t] = "load"
    /\ resp' = [resp EXCEPT ![t] = UnexpectedError("load_model")]
    /\ pc' = [pc EXCEPT ![t] = "done"]
    /\ UNCHANGED <<models, loadCount, language, voice, text, speed, idx, phones,
                   tones, word2ph, arrival>>

\* lines 83-111: one turn of the loop over text.split(); ToneError is
\* answered by lines 65-66
EncodeStep(t) ==
    /\ pc[t] = "loop"
    /\ idx[t] < Len(SplitWs(text[t]))
    /\ LET syllable == SplitWs(text[t])[idx[t] + 1]
           e == EncodeSyllable(language[t], syllable)
       IN  IF e.ok
           THEN /\ phones' = [phones EXCEPT ![t] = @ \o e.phones]
                /\ tones' = [tones EXCEPT ![t] = @ \o e.tones]
                /\ word2ph' = [word2ph EXCEPT ![t] = Append(@, e.word2ph)]
                /\ idx' = [idx EXCEPT ![t] = @ + 1]
                /\ UNCHANGED <<pc, resp>>
           ELSE /\ resp' = [resp EXCEPT ![t] = ToneError(syllable)]
                /\ pc' = [pc EXCEPT ![t] = "done"]
                /\ UNCHANGED <<idx, phones, tones, word2ph>>
    /\ UNCHANGED <<models, loadCount, language, voice, text, speed, arrival>>

\* lines 113-115, after the loop
AppendPad(t) ==
    /\ pc[t] = "loop"
    /\ idx[t] = Len(SplitWs(text[t]))
    /\ phones' = [phones EXCEPT ![t] = Append(@, pad)]
    /\ tones' = [tones EXCEPT ![t] = Append(@, 0)]
    /\ word2ph' = [word2ph EXCEPT ![t] = Append(@, 1)]
    /\ pc' = [pc EXCEPT ![t] = "built"]
    /\ UNCHANGED <<models, loadCount, language, voice, text, speed, idx, resp, arrival>>

\* lines 116-161 and 62-70: the symbols are looked up (SymbolError on the first
\* miss), the model infers and the audio is written; infer or the writer may raise
Synthesize(t) ==
    /\ pc[t] = "built"
    /\ LET miss == Unknown(language[t], phones[t])
       IN  IF miss # {}
           THEN resp' = [resp EXCEPT ![t] = SymbolError(phones[t][Min(miss)])]
           ELSE \/ resp' = [resp EXCEPT ![t] = Audio]
                \/ resp' = [resp EXCEPT ![t] = UnexpectedError("infer")]
    /\ pc' = [pc EXCEPT ![t] = "done"]
    /\ UNCHANGED <<models, loadCount, language, voice, text, speed, idx, phones,
                   tones, word2ph, arrival>>

\* lines 18-32: application sends the response; the request's locals are gone
Return(t) ==
    /\ pc[t] = "done"
    /\ pc' = [pc EXCEPT ![t] = "idle"]
    /\ language' = [language EXCEPT ![t] = NoStr]
    /\ voice' = [voice EXCEPT ![t] = NoStr]
    /\ text' = [text EXCEPT ![t] = NoStr]
    /\ speed' = [speed EXCEPT ![t] = NoSpeed]
    /\ idx' = [idx EXCEPT ![t] = 0]
    /\ phones' = [phones EXCEPT ![t] = <<>>]
    /\ tones' = [tones EXCEPT ![t] = <<>>]
    /\ word2ph' = [word2ph EXCEPT ![t] = <<>>]
    /\ resp' = [resp EXCEPT ![t] = NoResp]
    /\ arrival' = [arrival EXCEPT ![t] = NoArrival]
    /\ UNCHANGED <<models, loadCount>>

Step(t) ==
    \/ CheckModel(t)
    \/ LoadModelOk(t)
    \/ LoadModelFails(t)
    \/ EncodeStep(t)
    \/ AppendPad(t)
    \/ Synthesize(t)
    \/ Return(t)

(***************************************************************************)
(* The requests.                                                           *)
(***************************************************************************)
Slash == <<"/">>
MkPath(function, lang, txt) == Str(Slash \o function \o Slash \o lang \o Slash \o txt)

cantonese == <<"c", "a", "n", "t", "o", "n", "e", "s", "e">>
go2 == <<"g", "o", "2">>
voiceEq == voiceKey \o <<"=">>
speedEq == speedKey \o <<"=">>
robot == <<"r", "o", "b", "o", "t">>

\* Requests of the concurrent specification: both languages and both voices
\* (two of the four cache keys), an unknown language and an unknown voice
Requests ==
    { <<MkPath(tts, waitau, go2), Str(<<>>)>>,
      <<MkPath(tts, hakka, go2), Str(voiceEq \o female)>>,
      <<MkPath(tts, cantonese, go2), Str(<<>>)>>,
      <<MkPath(tts, waitau, go2), Str(voiceEq \o robot)>> }

Next ==
    \E t \in Threads :
        \/ \E r \in Requests : Start(t, r[1], r[2])
        \/ Step(t)

Spec == Init /\ [][Next]_vars


(***************************************************************************)
(* Requests served one after another: a request comes in only when no      *)
(* other is in progress, and the cache is recorded as it comes in.         *)
(***************************************************************************)
Quiet == \A u \in Threads : pc[u] = "idle"

StartSeq(t, path, query) ==
    /\ Receive(t, path, query)
    /\ arrival' = [arrival EXCEPT ![t] = [path |-> path, query |-> query, models |-> models]]

ho2 == <<"h", "o", "2">>
pit8 == <<"p", "i", "t", "8">>

SeqPaths ==
    { None,
      Str(<<>>),
      MkPath(tts, waitau, go2),
      MkPath(<<"T", "T", "S">>, <<"H", "a", "k", "k", "a">>, <<"P", "I", "T", "8">>),
      Str(MkPath(tts, hakka, go2 \o <<"+">> \o ho2).s \o Slash),
      MkPath(tts, cantonese, <<"n", "e", "i", "5">>),
      Str(Slash \o tts \o Slash \o waitau),
      MkPath(tts, waitau, go2 \o Slash \o <<"x">>),
      MkPath(<<"a", "p", "i">>, waitau, go2),
      MkPath(tts, <<>>, go2),
      MkPath(tts, waitau, <<"g", "<FF>">>),
      MkPath(tts, waitau, <<"<U+0130>">>),
      MkPath(tts, waitau, <<"x", "o", "2">>) }

SeqQueries ==
    { None,
      Str(<<>>),
      Str(voiceEq \o female),
      Str(voiceEq \o male),
      Str(voiceEq \o robot),
      Str(voiceEq \o male \o <<"&">> \o voiceEq \o female),
      Str(voiceKey),
      Str(voiceEq \o male \o <<"&">>),
      Str(voiceEq \o <<"<FF>">>),
      Str(<<"V", "o", "i", "c", "e", "=", "F", "E", "M", "A", "L", "E", "&">> \o speedEq \o <<"2">>),
      Str(<<"x", "=", "1">>),
      Str(speedEq \o <<"1", ".", "5">>),
      Str(speedEq \o <<"0", ".", "5">>),
      Str(speedEq \o <<"2">>),
      Str(speedEq \o <<"2", ".", "5">>),
      Str(speedEq \o <<"0", ".", "4", "9">>),
      Str(speedEq \o <<"+", "1">>),
      Str(speedEq \o <<"-", "1">>),
      Str(speedEq \o <<"n", "a", "n">>),
      Str(speedEq \o <<"i", "n", "f">>),
      Str(speedEq \o <<"f", "a", "s", "t">>),
      Str(speedEq),
      Str(speedEq \o <<"1", "&">> \o speedEq \o <<"1">>) }

NextSeq ==
    \E t \in Threads :
        \/ Quiet /\ \E path \in SeqPaths, query \in SeqQueries : StartSeq(t, path, query)
        \/ Step(t)

SpecSeq == Init /\ [][NextSeq]_vars

(***************************************************************************)
(* The encoder on every text of up to MaxSyllables syllables, in both      *)
(* languages, with no query.  The syllables are written as the path        *)
(* carries them (UTF-8 bytes), joined by "+".                              *)
(***************************************************************************)
EncSyllables ==
    { go2,
      pit8,
      <<"a">>,
      <<"y", "i", "t", "1">>,
      <<"g", "i", "a", "3">>,
      <<"g", "i", "5">>,
      <<"n", "g", "2">>,
      <<"i", "u", "0">>,
      <<"k", "o">>,
      <<"h", "<C3>", "<A4>", "6">>,
      <<"g", "a", "<D9>", "<A3>">> }

Seqs(S, n) == UNION {[1..k -> S] : k \in 1..n}

RECURSIVE Join(_)
Join(ss) ==
    IF Len(ss) = 1 THEN Head(ss) ELSE Head(ss) \o <<"+">> \o Join(Tail(ss))

EncTexts == {<<"+">>} \cup {Join(ss) : ss \in Seqs(EncSyllables, MaxSyllables)}

EncPaths == {MkPath(tts, lang, txt) : lang \in {waitau, hakka}, txt \in EncTexts}

NextEncode ==
    \E t \in Threads :
        \/ Quiet /\ \E path \in EncPaths : StartSeq(t, path, Str(<<>>))
        \/ Step(t)

SpecEncode == Init /\ [][NextEncode]_vars


(***************************************************************************)
(* The claims.                                                             *)
(***************************************************************************)
Busy(t) == pc[t] \in {"check", "load", "loop", "built"}
Answered(t) == pc[t] = "done"
Failure(r) == r.kind = "return" /\ r.status \in {404, 500}

\* C1: when requests for the same never-loaded (language, voice) key run
\* concurrently, load_model is performed once for the key: no interleaving
\* lets two requests both see the key absent and both load.
C1_LoadedOnce == \A k \in DOMAIN loadCount : loadCount[k] <= 1

\* C2: for requests served one after another, once a handle is in the models
\* cache under a key it stays there unchanged, no later request loads the key
\* again, and the number of loads of every cached key is 1.
C2_NoReload ==
    [][\A k \in DOMAIN models' :
          /\ loadCount'[k] = 1
          /\ k \in DOMAIN models => models'[k] = models[k]
          /\ DOMAIN models \subseteq DOMAIN models']_vars

\* a later request for a key that was cached when it came in was answered with audio
C2_Witness ==
    \E t \in Threads :
        /\ Answered(t)
        /\ resp[t] = Audio
        /\ Name(language[t], voice[t]) \in DOMAIN arrival[t].models
        /\ models = arrival[t].models

\* C3: whatever path and query app is handed (None included) and whatever a
\* pipeline stage raises, app returns a (status, body) pair with status 200,
\* 404 or 500 and no exception leaves it.
C3_AlwaysAStatus ==
    \A t \in Threads :
        Answered(t) => resp[t].kind = "return" /\ resp[t].status \in {200, 404, 500}

\* the path names no route: it does not split into three segments, or the
\* first is not tts, or the language is neither waitau nor hakka
RouteNotFound(path) ==
    /\ path.some
    /\ Recode(path.s).ok
    /\ LET segs == Split(Strip(Lower(Recode(path.s).str), "/"), "/")
       IN  \/ Len(segs) # 3
           \/ segs[1] # <<"t", "t", "s">>
           \/ segs[2] \notin {<<"w", "a", "i", "t", "a", "u">>, <<"h", "a", "k", "k", "a">>}

\* C4: app returns 404 if and only if the path names no route; every other
\* failure, a query string that fails strict parsing included, is a 500.
C4_NotFoundIffNoRoute ==
    \A t \in Threads :
        Answered(t) /\ resp[t].kind = "return" =>
            (resp[t].status = 404 <=> RouteNotFound(arrival[t].path))

\* s is a decimal number inside [0.5, 2.0]
SpeedValueOk(x) ==
    /\ x.ok
    /\ x.kind = "num"
    /\ ~x.neg
    /\ 2 * x.num >= Pow10(x.scale)
    /\ x.num <= 2 * Pow10(x.scale)

\* the options of a query string that decodes and parses: which of them, if
\* any, is given more than once or has a value outside its constraint
BadOption(query) ==
    LET pairs == ParseQs(Lower(Recode(query.s).str)).pairs
        v == ValuesOf(pairs, voiceKey)
        sp == ValuesOf(pairs, speedKey)
    IN  IF Len(v) > 1 \/ (Len(v) = 1 /\ v[1] \notin {male, female}) THEN "voice"
        ELSE IF Len(sp) > 1 \/ (Len(sp) = 1 /\ ~SpeedValueOk(Float(sp[1]))) THEN "speed"
        ELSE "none"

Parses(query) ==
    /\ query.some
    /\ Recode(query.s).ok
    /\ ParseQs(Lower(Recode(query.s).str)).ok

\* C5: on a valid route generate_audio runs only with voice male or female
\* and a speed s with 0.5 <= s <= 2.0; a request whose voice or speed is given
\* more than once or is outside its constraint is answered 500 "Invalid
\* option" and nothing is synthesised.
C5_OptionGate ==
    \A t \in Threads :
        /\ Busy(t) => voice[t] \in {male, female} /\ SpeedValueOk(speed[t])
        /\ ( /\ pc[t] # "idle"
             /\ arrival[t].path.some
             /\ Recode(arrival[t].path.s).ok
             /\ ~RouteNotFound(arrival[t].path)
             /\ Parses(arrival[t].query)
             /\ BadOption(arrival[t].query) # "none" )
           => /\ Answered(t)
              /\ resp[t].kind = "return"
              /\ resp[t].status = 500
              /\ resp[t].body.error = "Invalid option"
              /\ phones[t] = <<>>

\* C6: a request that ends in a failure response (404 or 500) leaves the
\* models cache exactly as it was when the request came in; a request that
\* fails with ToneError or SymbolError among them, which loads no model.
C6_FailureLeavesCache ==
    \A t \in Threads :
        Answered(t) /\ Failure(resp[t]) => models = arrival[t].models

FourKeys ==
    { <<"w", "a", "i", "t", "a", "u", "_", "m", "a", "l", "e">>,
      <<"w", "a", "i", "t", "a", "u", "_", "f", "e", "m", "a", "l", "e">>,
      <<"h", "a", "k", "k", "a", "_", "m", "a", "l", "e">>,
      <<"h", "a", "k", "k", "a", "_", "f", "e", "m", "a", "l", "e">> }

\* C10: after any interleaving of requests every key of the models cache is
\* one of the four "{language}_{voice}" strings, so the cache holds at most 4
\* entries, and only requests that passed path and option validation are in
\* generate_audio.
C10_CacheKeys ==
    /\ DOMAIN models \subseteq FourKeys
    /\ Cardinality(DOMAIN models) <= Cardinality(FourKeys)
    /\ \A t \in Threads :
          /\ Busy(t) => Name(language[t], voice[t]) \in FourKeys
          /\ ( /\ Answered(t)
               /\ Failure(resp[t])
               /\ resp[t].body.error \in {"Page not found", "Invalid option",
                                           "Error while decoding URI: invalid characters"} )
             => phones[t] = <<>> /\ language[t] = NoStr

\* a rejected request is being answered while another request is in
\* generate_audio and the cache holds more than one key
C10_Witness ==
    /\ Cardinality(DOMAIN models) > 1
    /\ \E t, u \in Threads :
          /\ Answered(t) /\ Failure(resp[t]) /\ language[t] = NoStr
          /\ Busy(u)


(***************************************************************************)
(* The claims about the encoder.  Syllable i of the text owns the phones   *)
(* after the first Before(t, i) ones, as the word-count sequence tells.    *)
(***************************************************************************)
Syllables(t) == SplitWs(text[t])
EncoderRan(t) == phones[t] # <<>>

RECURSIVE SumTo(_, _)
SumTo(w, n) == IF n = 0 THEN 0 ELSE w[n] + SumTo(w, n - 1)

Before(t, i) == SumTo(word2ph[t], i)
Last(s) == s[Len(s)]

ToneValue == [c \in {"0", "1", "2", "3", "4", "5", "6"} |->
                 CASE c = "0" -> 0 [] c = "1" -> 1 [] c = "2" -> 2 [] c = "3" -> 3
                   [] c = "4" -> 4 [] c = "5" -> 5 [] c = "6" -> 6]

\* decimal digits: the ASCII ones and the Arabic-Indic ones of the alphabet
AnyDigit == {"0", "1", "2", "3", "4", "5", "6", "7", "8", "9", "<U+0663>", "<U+0664>"}

\* a syllable of two or more characters that ends in 7, 8, 9 or a non-digit
Offending(s) == Len(s) >= 2 /\ (Last(s) \in {"7", "8", "9"} \/ Last(s) \notin AnyDigit)

C8_Decomposition ==
    \A t \in Threads :
        EncoderRan(t) =>
            \A i \in 1..idx[t] :
                LET s == Syllables(t)[i]
                    off == Before(t, i)
                    ph == phones[t]
                    tn == tones[t]
                    vs == Positions(s, Vowels)
                    k == IF vs = {} THEN 1 ELSE Min(vs)
                    later == {j \in vs : j > k}
                    glide == s[k] = "i" /\ later # {}
                IN  Len(s) >= 2 =>
                        /\ tn[off + 1] \in 0..6
                        /\ ph[off + 1] = SubSeq(s, 1, k - 1)
                        /\ IF language[t] = waitau
                           THEN /\ word2ph[t][i + 1] = 2
                                /\ ph[off + 2] = SubSeq(s, k, Len(s) - 1)
                                /\ tn[off + 2] = tn[off + 1]
                           ELSE /\ word2ph[t][i + 1] = 3
                                /\ ph[off + 2] \in {<<"#">>, <<"i">>}
                                /\ ph[off + 2] = <<"i">> <=> (ph[off + 1] = <<"y">> \/ glide)
                                /\ ph[off + 3] = SubSeq(s, IF glide THEN Min(later) ELSE k, Len(s) - 1)
                                /\ tn[off + 3] = tn[off + 1]
                                /\ tn[off + 2] = IF ph[off + 2] = <<"#">> THEN 0 ELSE tn[off + 1]

\* a hakka text was encoded with a placeholder medial of tone 0 and an "i"
\* medial that carries a tone above 0
C8_Witness ==
    \E t \in Threads :
        /\ pc[t] = "built"
        /\ language[t] = hakka
        /\ \E i, j \in 1..Len(phones[t]) :
              /\ phones[t][i] = <<"#">> /\ tones[t][i] = 0 /\ tones[t][i - 1] > 0
              /\ phones[t][j] = <<"i">> /\ tones[t][j] > 0 /\ word2ph[t][2] = 3

Finished(t) == pc[t] \in {"built", "done"} /\ idx[t] = Len(Syllables(t))

\* C9: while a text is encoded, after every syllable step the phone and tone
\* sequences have the same length, every tone is in 0..6 and the word counts
\* sum to the number of phones; the sequences begin with the pad (tone 0,
\* count 1) and, once the text is encoded, end with it, the pad being added
\* once per request: the word counts are one per syllable plus the two pads.
C9_Sequences ==
    \A t \in Threads :
        EncoderRan(t) =>
            /\ Len(phones[t]) = Len(tones[t])
            /\ \A i \in 1..Len(tones[t]) : tones[t][i] \in 0..6
            /\ SumTo(word2ph[t], Len(word2ph[t])) = Len(phones[t])
            /\ phones[t][1] = <<"_">> /\ tones[t][1] = 0 /\ word2ph[t][1] = 1
            /\ IF Finished(t)
               THEN /\ Last(phones[t]) = <<"_">>
                    /\ Last(tones[t]) = 0
                    /\ Last(word2ph[t]) = 1
                    /\ Len(word2ph[t]) = Len(Syllables(t)) + 2
               ELSE Len(word2ph[t]) = idx[t] + 1

\* a text of two or more syllables is encoded and padded
C9_Witness ==
    \E t \in Threads : pc[t] = "built" /\ idx[t] >= 2 /\ Len(phones[t]) > 4

=============================================================================
